---- MODULE Spec2Model ----
(***************************************************************************)
(* Smart Study Recommender API (src/main.py, src/schemas.py): the request  *)
(* handlers over the document store.                                       *)
(*                                                                         *)
(* The store holds the collections resource, roadmap and saveditem.  Each  *)
(* handler of main.py issues exactly one store operation and keeps no      *)
(* state of its own, so a handler is one atomic action and concurrent      *)
(* requests are interleavings of handler actions.                          *)
(*                                                                         *)
(* Documents are functions from field names to values.  A value that can   *)
(* be of several Python types (None, a number, a string, an ObjectId) is a *)
(* tagged record [t, n, s], so that values of different types compare.     *)
(* Strings that are pattern-matched are sequences of one-character         *)
(* strings.                                                                *)
(***************************************************************************)
EXTENDS Integers, Sequences, FiniteSets, TLC

VARIABLES
    db,         \* TRUE iff database.db is not None (set once at import)
    resource,   \* db["resource"]: sequence of documents in insertion order
    roadmap,    \* db["roadmap"]: set of documents (unique _id)
    saveditem,  \* db["saveditem"]: set of documents (unique _id)
    resp,       \* the last request handled and the response it produced
    walk        \* a client paging through /api/recommendations

vars == <<db, resource, roadmap, saveditem, resp, walk>>

----------------------------------------------------------------------------
(* Python / BSON values *)

None == [t |-> "null", n |-> 0, s |-> ""]
Num(x) == [t |-> "num", n |-> x, s |-> ""]
Str(x) == [t |-> "str", n |-> 0, s |-> x]
\* a bson ObjectId, generated by the store for a document inserted without _id
ObjectId(x) == [t |-> "oid", n |-> x, s |-> ""]

\* str(v) for an _id value: main.py:83 keeps a str and stringifies the rest
PyStr(v) == IF v.t = "str" THEN v.s ELSE "oid" \o ToString(v.n)

\* the _id the store generates on insert: an ObjectId no document of the
\* collection carries
NewObjectId(coll) ==
    ObjectId(1 + Cardinality({d \in coll : d["_id"].t = "oid"}))

NoResponse == [op |-> "none"]
NoWalk == [active |-> FALSE]

\* HTTPException(status_code=500, detail="Database not configured")
Http500 == [status |-> 500, detail |-> "Database not configured"]

----------------------------------------------------------------------------
(* POST /api/saved *)

UserIds == {"u1", "u2"}
ResourceIds == {"r1", "r2"}
MaxTimestamp == 1
Timestamps == {None} \cup {Num(i) : i \in 1..MaxTimestamp}

\* schemas.SavedItem: userId: str, resourceId: str, createdAt: Optional[datetime]
SavedItem == [userId : UserIds, resourceId : ResourceIds, createdAt : Timestamps]

\* payload.model_dump(): every field of the model, None included
model_dump(payload) ==
    [userId |-> payload.userId, resourceId |-> payload.resourceId,
     createdAt |-> payload.createdAt]

\* the documents of coll matching an equality filter on the fields of filt
Matching(coll, filt) ==
    {d \in coll : \A k \in DOMAIN filt : k \in DOMAIN d /\ d[k] = filt[k]}

\* update_one(filt, {"$set": data}, upsert=True): overwrites a matching document
UpsertSet(coll, filt, data) ==
    IF Matching(coll, filt) # {}
    THEN LET m == CHOOSE d \in Matching(coll, filt) : TRUE
         IN  (coll \ {m}) \cup {data @@ m}
    ELSE coll \cup {("_id" :> NewObjectId(coll)) @@ data @@ filt}

\* insert_one(data): no look at what the collection holds
InsertAlways(coll, filt, data) ==
    coll \cup {("_id" :> NewObjectId(coll)) @@ data @@ filt}

\* update_one(filt, {"$setOnInsert": data}, upsert=True): a matching document
\* is left as it is; without one, the store inserts the filter's equality
\* fields and data under a generated _id.  The call is one store operation
\* and is taken as atomic: the match and the insert are not interleaved with
\* another request's.
UpsertSetOnInsert(coll, filt, data) ==
    IF Matching(coll, filt) # {}
    THEN coll
    ELSE coll \cup {("_id" :> NewObjectId(coll)) @@ data @@ filt}

\* the store call of save_item
SaveItemStore(coll, filt, data) == UpsertSetOnInsert(coll, filt, data)

save_item(payload) ==
    /\ IF ~db
       THEN /\ resp' = [op |-> "save_item", args |-> payload] @@ Http500
            /\ UNCHANGED saveditem
       ELSE LET data == model_dump(payload)
            IN  /\ saveditem' = SaveItemStore(saveditem,
                        [userId |-> data.userId, resourceId |-> data.resourceId],
                        data)
                /\ resp' = [op |-> "save_item", args |-> payload,
                            status |-> 200, body |-> [ok |-> TRUE]]
    /\ UNCHANGED <<db, resource, roadmap, walk>>

InitSaved ==
    /\ db \in BOOLEAN
    /\ resource = <<>>
    /\ roadmap = {}
    /\ saveditem = {}
    /\ resp = NoResponse
    /\ walk = NoWalk

NextSaved == \E payload \in SavedItem : save_item(payload)

SpecSaved == InitSaved /\ [][NextSaved]_vars

----------------------------------------------------------------------------
(* POST /api/roadmap, PATCH /api/roadmap/{roadmap_id} *)

MaxRoadmaps == 2

\* a request body field the client left out
Missing == [t |-> "missing", n |-> 0, s |-> ""]

Item(r, done) == [resourceId |-> r, done |-> done]

\* request bodies of POST /api/roadmap, before validation
RoadmapPayloads ==
    [userId : {"u1"}, title : {"t1"}, items : {<<Item("r1", FALSE)>>},
     progress : {Missing, Num(150)}]

\* schemas.Roadmap: progress: Optional[float] = Field(0.0, ge=0, le=100);
\* None passes, a number passes within the range, a missing field is 0.0
RoadmapValid(p) ==
    \/ p.progress.t \in {"missing", "null"}
    \/ p.progress.t = "num" /\ 0 <= p.progress.n /\ p.progress.n <= 100

Roadmap(p) ==
    [userId |-> p.userId, title |-> p.title, items |-> p.items,
     progress |-> IF p.progress.t = "missing" THEN Num(0) ELSE p.progress]

\* the identifier a new roadmap gets: a string, or an ObjectId of the store
NewRoadmapIds(coll) ==
    {NewObjectId(coll),
     Str("rm" \o ToString(1 + Cardinality({d \in coll : d["_id"].t = "str"})))}

\* database.create_document: persists the validated payload under a generated
\* identifier
create_document(coll, data, id) == coll \cup {("_id" :> id) @@ data}

create_roadmap(payload) ==
    /\ Cardinality(roadmap) < MaxRoadmaps
    /\ IF ~RoadmapValid(payload)
       THEN /\ resp' = [op |-> "create_roadmap", args |-> payload,
                        status |-> 422, detail |-> "validation error"]
            /\ UNCHANGED roadmap
       ELSE IF ~db
       THEN /\ resp' = [op |-> "create_roadmap", args |-> payload] @@ Http500
            /\ UNCHANGED roadmap
       ELSE \E id \in NewRoadmapIds(roadmap) :
            /\ roadmap' = create_document(roadmap, Roadmap(payload), id)
            /\ resp' = [op |-> "create_roadmap", args |-> payload,
                        status |-> 200, body |-> [ok |-> TRUE, id |-> PyStr(id)]]
    /\ UNCHANGED <<db, resource, saveditem, walk>>

\* A patch maps field paths to values; a path is the key of the JSON body split
\* at its dots: <<"title">> is "title", <<"items", "0", "done">> is
\* "items.0.done".
PatchOf(path, v) == [p \in {path} |-> v]

Patches ==
    { PatchOf(<<"progress">>, [val |-> Num(150)]),
      PatchOf(<<"progress">>, [val |-> Str("high")]),
      PatchOf(<<"items", "0", "done">>, [val |-> TRUE]),
      PatchOf(<<"items">>, [val |-> <<>>]) @@ PatchOf(<<"note">>, [val |-> "n"]) }

\* $set of one path on a document.  A one-component path assigns the top-level
\* field, creating it when absent.  <<f, "0", g>> assigns field g of element 0
\* of the array f, creating the element when the array is empty.
SetPath(doc, path, v) ==
    IF Len(path) = 1
    THEN (path[1] :> v) @@ doc
    ELSE LET arr == doc[path[1]]
         IN  (path[1] :> (IF Len(arr) = 0
                          THEN <<(path[3] :> v)>>
                          ELSE [arr EXCEPT ![1] = (path[3] :> v) @@ @])) @@ doc

RECURSIVE SetAll(_, _, _)
SetAll(doc, body, paths) ==
    IF paths = {}
    THEN doc
    ELSE LET p == CHOOSE q \in paths : TRUE
         IN  SetAll(SetPath(doc, p, body[p].val), body, paths \ {p})

\* update_one(filt, {"$set": body}, upsert=True): without a match the store
\* inserts the filter's fields and the patch's top-level fields
UpdateOneUpsert(coll, filt, body) ==
    LET m == Matching(coll, filt)
    IN  IF m = {}
        THEN [matched_count |-> 0,
              coll |-> coll \cup
                  {SetAll(filt, body, {p \in DOMAIN body : Len(p) = 1})}]
        ELSE LET d == CHOOSE x \in m : TRUE
             IN  [matched_count |-> 1,
                  coll |-> (coll \ {d}) \cup {SetAll(d, body, DOMAIN body)}]

\* update_one(filt, {"$set": body}): the result's matched_count and the
\* collection it leaves
UpdateOneSet(coll, filt, body) ==
    LET m == Matching(coll, filt)
    IN  IF m = {}
        THEN [matched_count |-> 0, coll |-> coll]
        ELSE LET d == CHOOSE x \in m : TRUE
             IN  [matched_count |-> 1,
                  coll |-> (coll \ {d}) \cup {SetAll(d, body, DOMAIN body)}]

\* the store call of update_roadmap
UpdateRoadmapStore(coll, filt, body) == UpdateOneSet(coll, filt, body)

update_roadmap(roadmap_id, body) ==
    /\ IF ~db
       THEN /\ resp' = [op |-> "update_roadmap", id |-> roadmap_id, args |-> body]
                       @@ Http500
            /\ UNCHANGED roadmap
       ELSE LET res == UpdateRoadmapStore(roadmap, [_id |-> Str(roadmap_id)], body)
            IN  /\ roadmap' = res.coll
                /\ resp' = IF res.matched_count = 0
                           THEN [op |-> "update_roadmap", id |-> roadmap_id,
                                 args |-> body, status |-> 404,
                                 detail |-> "Roadmap not found"]
                           ELSE [op |-> "update_roadmap", id |-> roadmap_id,
                                 args |-> body, status |-> 200,
                                 body |-> [ok |-> TRUE]]
    /\ UNCHANGED <<db, resource, saveditem, walk>>

RoadmapIdInputs ==
    {"rm" \o ToString(i) : i \in 1..MaxRoadmaps}
        \cup {"oid" \o ToString(i) : i \in 1..MaxRoadmaps} \cup {"nope"}

InitRoadmap == InitSaved

NextRoadmap ==
    \/ \E payload \in RoadmapPayloads : create_roadmap(payload)
    \/ \E roadmap_id \in RoadmapIdInputs, body \in Patches :
            update_roadmap(roadmap_id, body)

SpecRoadmap == InitRoadmap /\ [][NextRoadmap]_vars

----------------------------------------------------------------------------
(* Strings and the store's $regex *)

UpperCase == <<"A", "B", "C", "D", "E", "F", "G", "H", "I", "J", "K", "L", "M",
               "N", "O", "P", "Q", "R", "S", "T", "U", "V", "W", "X", "Y", "Z">>
LowerCase == <<"a", "b", "c", "d", "e", "f", "g", "h", "i", "j", "k", "l", "m",
               "n", "o", "p", "q", "r", "s", "t", "u", "v", "w", "x", "y", "z">>

\* the case folding of one character
Fold(c) ==
    IF \E i \in DOMAIN UpperCase : UpperCase[i] = c
    THEN LowerCase[CHOOSE i \in DOMAIN UpperCase : UpperCase[i] = c]
    ELSE c

\* One pattern character against one subject character under "$options": "i".
\* The patterns here are letters and ".": a letter matches itself in either
\* case, "." matches any character.
AtomMatches(p, c) == p = "." \/ Fold(p) = Fold(c)

\* pat matches s from position k + 1 on
MatchesAt(pat, s, k) ==
    /\ k + Len(pat) <= Len(s)
    /\ \A i \in 1..Len(pat) : AtomMatches(pat[i], s[k + i])

\* {"$regex": pat, "$options": "i"} on a string: the pattern matches somewhere
RegexSearch(pat, s) == \E k \in 0..Len(s) : MatchesAt(pat, s, k)

\* {"$regex": "^" + pat + "$", "$options": "i"}: the pattern matches all of s
RegexAnchored(pat, s) == Len(pat) = Len(s) /\ MatchesAt(pat, s, 0)

----------------------------------------------------------------------------
(* The resource collection *)

NRes == 3

Absent == [t |-> "absent", n |-> 0, s |-> ""]
NoMetadata == [k \in {} |-> 0]

\* a document of db["resource"]; id, views and created_at are optional fields
ResourceDoc(oid, id, title, category, level, tags, views, created) ==
    [_id |-> oid, title |-> title, category |-> category, level |-> level,
     tags |-> tags,
     metadata |-> IF views = Absent THEN NoMetadata ELSE [views |-> views.n]]
    @@ (IF id = Absent THEN NoMetadata ELSE [id |-> id.s])
    @@ (IF created = Absent THEN NoMetadata ELSE [created_at |-> created.n])

\* as _resource_to_public, but a field named id that the document already has
\* is kept
KeepExistingId(doc) ==
    LET d == [k \in DOMAIN doc \ {"_id"} |-> doc[k]]
    IN  IF "_id" \in DOMAIN doc
        THEN d @@ ("id" :> PyStr(doc["_id"]))
        ELSE d

\* the public form of a stored document: _id leaves, id is its string
_resource_to_public(doc) ==
    LET d == [k \in DOMAIN doc \ {"_id"} |-> doc[k]]
    IN  IF "_id" \in DOMAIN doc
        THEN ("id" :> PyStr(doc["_id"])) @@ d
        ELSE d

\* the sort keys of get_recommendations, a missing field below every value
Views(doc) ==
    IF "views" \in DOMAIN doc.metadata THEN doc.metadata.views ELSE -1
CreatedAt(doc) == IF "created_at" \in DOMAIN doc THEN doc.created_at ELSE -1

\* .sort([("metadata.views", -1), ("created_at", -1)]): a comes before b
SortsBefore(a, b) ==
    \/ Views(a) > Views(b)
    \/ Views(a) = Views(b) /\ CreatedAt(a) > CreatedAt(b)

\* a precedes b in every cursor order: under the sort of get_recommendations
\* when sorted, never under a find() without sort
Precedes(a, b, sorted) == sorted /\ SortsBefore(a, b)

\* The orders in which a cursor can return the documents at the positions S of
\* the collection: every order that agrees with the sort; documents the sort
\* does not order come in any order.
RECURSIVE CursorOrders(_, _, _)
CursorOrders(coll, S, sorted) ==
    IF S = {}
    THEN {<<>>}
    ELSE UNION { { <<coll[i]>> \o rest :
                     rest \in CursorOrders(coll, S \ {i}, sorted) } :
                 i \in {j \in S : \A k \in S : ~Precedes(coll[k], coll[j], sorted)} }

----------------------------------------------------------------------------
(* GET /api/recommendations *)

MaxLimit == 50
MaxPage == 2

\* filt of get_recommendations (main.py:98-102): a field is constrained only
\* by a non-empty parameter
RecommendationFilter(doc, category, level) ==
    /\ category # <<>> => RegexAnchored(category, doc.category)
    /\ level # <<>> => RegexAnchored(level, doc.level)

\* count_documents(filt), which cursor.count() equals
CountDocuments(coll, category, level) ==
    Cardinality({i \in DOMAIN coll :
                    RecommendationFilter(coll[i], category, level)})

\* cursor.skip(skip) alone: everything after the window's start
SkipOnly(order, skip, limit) ==
    [i \in 1..(IF Len(order) - skip < 0 THEN 0 ELSE Len(order) - skip) |->
        order[skip + i]]

\* cursor.skip(skip).limit(limit) over the documents in cursor order
SkipLimit(order, skip, limit) ==
    [i \in 1..(IF Len(order) - skip < 0 THEN 0
               ELSE IF Len(order) - skip < limit THEN Len(order) - skip
               ELSE limit) |-> order[skip + i]]

\* the envelope of get_recommendations for a cursor returning order
Recommendations(order, total, page, limit) ==
    LET skip == (page - 1) * limit
        items == SkipLimit(order, skip, limit)
    IN  [data |-> [i \in DOMAIN items |-> _resource_to_public(items[i])],
         meta |-> [page |-> page, limit |-> limit, total |-> total]]

\* every response get_recommendations can give: one per order in which the
\* cursor can return the matching documents
RecommendationResponses(category, level, page, limit) ==
    LET args == [category |-> category, level |-> level,
                 page |-> page, limit |-> limit]
    IN  IF page < 1 \/ limit < 1 \/ limit > MaxLimit
        THEN {[op |-> "get_recommendations", args |-> args,
               status |-> 422, detail |-> "validation error"]}
        ELSE IF ~db
        THEN {[op |-> "get_recommendations", args |-> args] @@ Http500}
        ELSE LET S == {i \in DOMAIN resource :
                          RecommendationFilter(resource[i], category, level)}
             IN  { [op |-> "get_recommendations", args |-> args,
                    status |-> 200,
                    body |-> Recommendations(order,
                                 CountDocuments(resource, category, level),
                                 page, limit)] :
                   order \in CursorOrders(resource, S, TRUE) }

get_recommendations(category, level, page, limit) ==
    /\ resp' \in RecommendationResponses(category, level, page, limit)
    /\ UNCHANGED <<db, resource, roadmap, saveditem, walk>>

\* the client takes the response
Receive ==
    /\ resp # NoResponse
    /\ resp' = NoResponse
    /\ UNCHANGED <<db, resource, roadmap, saveditem, walk>>

ResCategories == {<<"A", "b">>, <<"a", "c">>}
Beginner == <<"B", "e", "g", "i", "n", "n", "e", "r">>
Advanced == <<"A", "d", "v", "a", "n", "c", "e", "d">>
ResLevels == {Beginner, Advanced}

CategoryInputs == {<<>>, <<"A", "B">>, <<"a", "b">>, <<"a", ".">>, <<"b">>}
LevelInputs == {<<>>, <<"b", "e", "g", "i", "n", "n", "e", "r">>}
LimitInputs == {0, 1, 2, MaxLimit}

InitRecommend ==
    /\ db \in BOOLEAN
    /\ resource \in
         { [i \in 1..NRes |->
               ResourceDoc(ObjectId(i), Absent, <<"x">>, c[i], l[i], <<>>,
                           Absent, Absent)] :
           c \in [1..NRes -> ResCategories], l \in [1..NRes -> ResLevels] }
    /\ roadmap = {}
    /\ saveditem = {}
    /\ resp = NoResponse
    /\ walk = NoWalk

\* one client: a request, its response, the next request
NextRecommend ==
    \/ /\ resp = NoResponse
       /\ \E category \in CategoryInputs, level \in LevelInputs,
             page \in 0..MaxPage, limit \in LimitInputs :
              get_recommendations(category, level, page, limit)
    \/ Receive

SpecRecommend == InitRecommend /\ [][NextRecommend]_vars

----------------------------------------------------------------------------
(* A client reading every page of /api/recommendations *)

\* the client fixes the filter and the limit and asks for page 1
StartPaging(category, level, limit) ==
    /\ walk = NoWalk
    /\ walk' = [active |-> TRUE, category |-> category, level |-> level,
                limit |-> limit, page |-> 1, acc |-> <<>>, total |-> 0,
                done |-> FALSE, failed |-> FALSE]
    /\ UNCHANGED <<db, resource, roadmap, saveditem, resp>>

\* the client requests the next page and appends its data, until a page is empty
NextPage ==
    /\ walk.active /\ ~walk.done
    /\ \E r \in RecommendationResponses(walk.category, walk.level,
                                        walk.page, walk.limit) :
        /\ resp' = r
        /\ walk' = IF r.status # 200
                   THEN [walk EXCEPT !.done = TRUE, !.failed = TRUE]
                   ELSE [walk EXCEPT !.acc = @ \o r.body.data,
                                     !.page = @ + 1,
                                     !.total = r.body.meta.total,
                                     !.done = (r.body.data = <<>>)]
    /\ UNCHANGED <<db, resource, roadmap, saveditem>>

ViewsInputs == {Absent, Num(7)}
CreatedInputs == {Absent, Num(1)}

InitPaging ==
    /\ db \in BOOLEAN
    /\ resource \in
         { [i \in 1..NRes |->
               ResourceDoc(ObjectId(i), Absent, <<"x">>, c[i], Beginner, <<>>,
                           v[i], t[i])] :
           c \in [1..NRes -> ResCategories], v \in [1..NRes -> ViewsInputs],
           t \in [1..NRes -> CreatedInputs] }
    /\ roadmap = {}
    /\ saveditem = {}
    /\ resp = NoResponse
    /\ walk = NoWalk

NextPaging ==
    \/ \E category \in {<<>>, <<"a", "b">>}, limit \in {1, 2} :
            StartPaging(category, <<>>, limit)
    \/ NextPage

SpecPaging == InitPaging /\ [][NextPaging]_vars

----------------------------------------------------------------------------
(* GET /api/resource/{res_id} *)

\* find_one({"_id": res_id}) or find_one({"id": res_id}): the documents the
\* lookup can return; the path parameter is a str
FindResource(coll, res_id) ==
    LET byId == {i \in DOMAIN coll : coll[i]["_id"] = Str(res_id)}
        byField == {i \in DOMAIN coll :
                       "id" \in DOMAIN coll[i] /\ coll[i].id = res_id}
    IN  {coll[i] : i \in IF byId # {} THEN byId ELSE byField}

get_resource(res_id) ==
    /\ IF ~db
       THEN resp' = [op |-> "get_resource", args |-> res_id] @@ Http500
       ELSE IF FindResource(resource, res_id) = {}
       THEN resp' = [op |-> "get_resource", args |-> res_id, status |-> 404,
                     detail |-> "Resource not found"]
       ELSE \E doc \in FindResource(resource, res_id) :
                resp' = [op |-> "get_resource", args |-> res_id,
                         status |-> 200, raw |-> doc,
                         body |-> _resource_to_public(doc)]
    /\ UNCHANGED <<db, resource, roadmap, saveditem, walk>>

\* the _id of the i-th seeded resource: a string or an ObjectId
ResourceIdsOf(i) == {ObjectId(i), Str("s" \o ToString(i))}
IdFieldInputs == {Absent, Str("x1"), Str("oid1")}
ResIdInputs == {"s1", "oid1", "x1", "nope"}

InitResource ==
    /\ db \in BOOLEAN
    /\ resource \in
         { [i \in 1..NRes |->
               ResourceDoc(o[i], f[i], <<"x">>, <<"A", "b">>, Beginner, <<>>,
                           Absent, Absent)] :
           o \in {g \in [1..NRes -> UNION {ResourceIdsOf(i) : i \in 1..NRes}] :
                     \A i \in 1..NRes : g[i] \in ResourceIdsOf(i)},
           f \in [1..NRes -> IdFieldInputs] }
    /\ roadmap = {}
    /\ saveditem = {}
    /\ resp = NoResponse
    /\ walk = NoWalk

NextResource ==
    \/ /\ resp = NoResponse
       /\ \E res_id \in ResIdInputs : get_resource(res_id)
    \/ Receive

SpecResource == InitResource /\ [][NextResource]_vars

----------------------------------------------------------------------------
(* GET /api/search *)

DefaultSearchLimit == 20

\* filt of search (main.py:169-178): q somewhere in the title or in a tag, and
\* a non-empty category or level somewhere in that field
SearchFilter(doc, q, category, level) ==
    /\ \/ RegexSearch(q, doc.title)
       \/ \E i \in DOMAIN doc.tags : RegexSearch(q, doc.tags[i])
    /\ category # <<>> => RegexSearch(category, doc.category)
    /\ level # <<>> => RegexSearch(level, doc.level)

\* min(50, max(1, limit))
ClampLimit(limit) ==
    LET lo == IF limit > 1 THEN limit ELSE 1
    IN  IF lo < MaxLimit THEN lo ELSE MaxLimit

search(q, category, level, limit) ==
    LET args == [q |-> q, category |-> category, level |-> level,
                 limit |-> limit]
    IN
    /\ IF ~db
       THEN resp' = [op |-> "search", args |-> args] @@ Http500
       ELSE LET S == {i \in DOMAIN resource :
                         SearchFilter(resource[i], q, category, level)}
            IN  \E order \in CursorOrders(resource, S, FALSE) :
                    LET cursor == SkipLimit(order, 0, ClampLimit(limit))
                    IN  resp' = [op |-> "search", args |-> args, status |-> 200,
                                 body |-> [data |-> [i \in DOMAIN cursor |->
                                              _resource_to_public(cursor[i])]]]
    /\ UNCHANGED <<db, resource, roadmap, saveditem, walk>>

TitleInputs == {<<"G", "o">>, <<"a", "b">>}
TagsInputs == {<<>>, << <<"g", "o">> >>}
QueryInputs == {<<"g", "o">>, <<"G", "O">>, <<"o">>, <<".">>, <<"z">>}
SearchLimitInputs == {-1, 1, 2, DefaultSearchLimit, MaxLimit + 1}

InitSearch ==
    /\ db \in BOOLEAN
    /\ resource \in
         { [i \in 1..NRes |->
               ResourceDoc(ObjectId(i), Absent, ti[i], c[i], Beginner, ta[i],
                           Absent, Absent)] :
           ti \in [1..NRes -> TitleInputs], c \in [1..NRes -> ResCategories],
           ta \in [1..NRes -> TagsInputs] }
    /\ roadmap = {}
    /\ saveditem = {}
    /\ resp = NoResponse
    /\ walk = NoWalk

NextSearch ==
    \/ /\ resp = NoResponse
       /\ \E q \in QueryInputs, category \in {<<>>, <<"B">>}, level \in {<<>>},
             limit \in SearchLimitInputs :
              search(q, category, level, limit)
    \/ Receive

SpecSearch == InitSearch /\ [][NextSearch]_vars

----------------------------------------------------------------------------
(* Properties *)

PairOf(d) == [userId |-> d.userId, resourceId |-> d.resourceId]

C2_ExistingRecordUntouched ==
    [][(/\ resp'.op = "save_item"
        /\ db
        /\ Matching(saveditem, PairOf(resp'.args)) # {})
       => /\ saveditem' = saveditem
          /\ resp'.status = 200
          /\ resp'.body = [ok |-> TRUE]]_vars

\* a repeated save carried a createdAt the stored record does not have
C2_Witness ==
    /\ resp.op = "save_item" /\ resp.status = 200
    /\ resp.body = [ok |-> TRUE]
    /\ \E d \in saveditem :
          /\ PairOf(d) = PairOf(resp.args)
          /\ d.createdAt = None
          /\ resp.args.createdAt # None

\* the number of documents the window of (page, limit) holds out of total
WindowSize(total, page, limit) ==
    LET left == total - (page - 1) * limit
    IN  IF left < 0 THEN 0 ELSE IF left < limit THEN left ELSE limit

\* C3: for every filter and valid (page, limit), get_recommendations answers
\* without error, data holds the window's share of the matching resources (at
\* most limit, none past the end) and meta.total is the number of resources
\* matching the filter, whatever the page.
C3_PageBoundedTotalIsMatchCount ==
    (/\ resp.op = "get_recommendations"
     /\ db
     /\ resp.args.page >= 1
     /\ resp.args.limit >= 1 /\ resp.args.limit <= MaxLimit)
    => /\ resp.status = 200
       /\ resp.body.meta.total =
            Cardinality({i \in DOMAIN resource :
                RecommendationFilter(resource[i], resp.args.category,
                                     resp.args.level)})
       /\ Len(resp.body.data) <= resp.args.limit
       /\ Len(resp.body.data) =
            WindowSize(resp.body.meta.total, resp.args.page, resp.args.limit)

\* a page past the end of a non-empty result: no data, the total still given
C3_Witness ==
    /\ resp.op = "get_recommendations" /\ resp.status = 200
    /\ resp.args.page > 1
    /\ resp.body.data = <<>>
    /\ resp.body.meta.total >= 2

\* C4: reading page 1, 2, ... until a page is empty and concatenating the data
\* yields meta.total documents, each matching resource exactly once.
C4_PagesHoldEachMatchOnce ==
    (walk.active /\ walk.done /\ ~walk.failed)
    => /\ Len(walk.acc) = walk.total
       /\ \A i \in DOMAIN resource :
            RecommendationFilter(resource[i], walk.category, walk.level)
            => Cardinality({k \in DOMAIN walk.acc :
                   walk.acc[k].id = PyStr(resource[i]["_id"])}) = 1

\* C5: every roadmap in the store has progress within [0, 100] (a progress of
\* None, which the schema admits, is not counted against the claim).
C5_ProgressWithinRange ==
    \A d \in roadmap :
        \/ d.progress.t = "null"
        \/ d.progress.t = "num" /\ 0 <= d.progress.n /\ d.progress.n <= 100

\* C6: update_roadmap with an identifier matching no roadmap answers 404 and
\* leaves the roadmap collection as it is, whatever the patch.
C6_UnknownIdIs404NoChange ==
    [][(/\ resp'.op = "update_roadmap"
        /\ db
        /\ Matching(roadmap, [_id |-> Str(resp'.id)]) = {})
       => /\ resp'.status = 404
          /\ roadmap' = roadmap]_vars

\* an update was answered 404 while the collection holds roadmaps, one of them
\* under the ObjectId whose string form the request named
C6_Witness ==
    /\ resp.op = "update_roadmap" /\ resp.status = 404
    /\ Cardinality(roadmap) = 2
    /\ \E d \in roadmap : d["_id"].t = "oid" /\ PyStr(d["_id"]) = resp.id

\* s equals c after case folding, every character of c taken literally
FoldedEqual(c, s) ==
    Len(c) = Len(s) /\ \A i \in 1..Len(c) : Fold(c[i]) = Fold(s[i])

\* the selection the claim describes for get_recommendations
SelectedLiterally(doc, category, level) ==
    /\ category # <<>> => FoldedEqual(category, doc.category)
    /\ level # <<>> => FoldedEqual(level, doc.level)

\* C7: get_recommendations selects a resource iff its category and level equal
\* the non-empty filter strings after case folding, every character literal.
C7_FiltersAreFoldedEquality ==
    (resp.op = "get_recommendations" /\ resp.status = 200)
    => /\ resp.body.meta.total =
            Cardinality({i \in DOMAIN resource :
                SelectedLiterally(resource[i], resp.args.category,
                                  resp.args.level)})
       /\ \A k \in DOMAIN resp.body.data :
            SelectedLiterally(resp.body.data[k], resp.args.category,
                              resp.args.level)

\* C8 as stated: the public form has no _id, has id = str(_id), and has every
\* other field of the document, a field named id included, with its value.
C8_EveryOtherFieldKept ==
    (resp.op = "get_resource" /\ resp.status = 200)
    => /\ "_id" \notin DOMAIN resp.body
       /\ "id" \in DOMAIN resp.body
       /\ resp.body.id = PyStr(resp.raw["_id"])
       /\ \A k \in DOMAIN resp.raw \ {"_id"} :
            k \in DOMAIN resp.body /\ resp.body[k] = resp.raw[k]

\* C8 amended: the public form has no _id, has id = str(_id) (the _id itself
\* when it is a string), and has every field of the document other than _id
\* and id with its value, and no further field; a field named id that the
\* document already has is replaced by str(_id).
C8_PublicFormOfDocument ==
    (resp.op = "get_resource" /\ resp.status = 200)
    => /\ DOMAIN resp.body = (DOMAIN resp.raw \ {"_id"}) \cup {"id"}
       /\ resp.body.id = (IF resp.raw["_id"].t = "str"
                          THEN resp.raw["_id"].s
                          ELSE PyStr(resp.raw["_id"]))
       /\ \A k \in DOMAIN resp.raw \ {"_id", "id"} : resp.body[k] = resp.raw[k]

\* a document with an ObjectId _id and a field id of its own was returned
C8_Witness ==
    /\ resp.op = "get_resource" /\ resp.status = 200
    /\ resp.raw["_id"].t = "oid"
    /\ "id" \in DOMAIN resp.raw
    /\ resp.raw.id # PyStr(resp.raw["_id"])

\* q occurs in s as a substring, case folded, every character literal
ContainsLiterally(q, s) ==
    \E k \in 0..Len(s) :
        /\ k + Len(q) <= Len(s)
        /\ \A i \in 1..Len(q) : Fold(q[i]) = Fold(s[k + i])

\* the selection the claim describes for search
SearchedLiterally(doc, q, category, level) ==
    /\ \/ ContainsLiterally(q, doc.title)
       \/ \E i \in DOMAIN doc.tags : ContainsLiterally(q, doc.tags[i])
    /\ category # <<>> => ContainsLiterally(category, doc.category)
    /\ level # <<>> => ContainsLiterally(level, doc.level)

\* C9: search returns at most the clamped limit of resources, each with q as a
\* case-insensitive substring of its title or a tag (and category, level as
\* substrings when given), and all of them when they are fewer than the limit.
C9_SearchIsSubstringMatch ==
    (resp.op = "search" /\ resp.status = 200)
    => LET data == resp.body.data
           n == ClampLimit(resp.args.limit)
           hits == {i \in DOMAIN resource :
                       SearchedLiterally(resource[i], resp.args.q,
                                         resp.args.category, resp.args.level)}
       IN  /\ Len(data) <= n
           /\ \A k \in DOMAIN data :
                SearchedLiterally(data[k], resp.args.q, resp.args.category,
                                  resp.args.level)
           /\ Len(data) = (IF Cardinality(hits) < n THEN Cardinality(hits) ELSE n)

\* the key of the JSON body that a path stands for
RECURSIVE JoinPath(_)
JoinPath(path) ==
    IF Len(path) = 1 THEN path[1] ELSE path[1] \o "." \o JoinPath(Tail(path))

\* C10: update_roadmap on an existing identifier sets exactly the top-level
\* fields the patch names to the patch's values on that roadmap, leaves its
\* other top-level fields and every other roadmap as they are, and answers
\* {ok: true}.
C10_PatchSetsNamedTopLevelFields ==
    [][(/\ resp'.op = "update_roadmap"
        /\ db
        /\ Matching(roadmap, [_id |-> Str(resp'.id)]) # {})
       => LET old == CHOOSE d \in Matching(roadmap, [_id |-> Str(resp'.id)]) : TRUE
              body == resp'.args
              named == {JoinPath(p) : p \in DOMAIN body}
          IN  /\ resp'.status = 200
              /\ resp'.body = [ok |-> TRUE]
              /\ \E new \in roadmap' :
                   /\ roadmap' \ {new} = roadmap \ {old}
                   /\ DOMAIN new = DOMAIN old \cup named
                   /\ \A p \in DOMAIN body : new[JoinPath(p)] = body[p].val
                   /\ \A k \in DOMAIN old \ named : new[k] = old[k]]_vars

====
